---- MODULE Spec2Model ----
(***************************************************************************)
(* Model of the concurrent HTTP/1.1 server of app/server.go: the acceptor  *)
(* loop with its semaphore gate (main), the per-connection worker          *)
(* (handleConnection), the request parser (getMethod, getPath, getHeaders),*)
(* the router (postResponse, getResponse) and the handlers (handleEcho,    *)
(* handleUserAgent, handleFiles).                                          *)
(*                                                                         *)
(* Byte strings are sequences of one-character strings, so that parsing,   *)
(* trimming, case folding, number conversion and formatting are computed   *)
(* the way the Go code computes them.                                      *)
(***************************************************************************)
EXTENDS Integers, Sequences, FiniteSets, TLC

----------------------------------------------------------------------------
(* Bounds of the model.                                                    *)

\* number of connections the peers open in one run of the server
MaxConns == 3
\* largest value runtime.GOMAXPROCS(0) returns in the model
MaxProcs == 2
\* longest stored / posted body in the round-trip specification
MaxBody == 3
\* largest number of complete header lines in the header specification
MaxHeaderLines == 3

----------------------------------------------------------------------------
(* String literals of server.go, as byte sequences.                        *)

\* "GET"
sGET ==
    <<"G", "E", "T">>

\* "POST"
sPOST ==
    <<"P", "O", "S", "T">>

\* "/"
sRoot ==
    <<"/">>

\* "/echo"
sEcho ==
    <<"/", "e", "c", "h", "o">>

\* "/user-agent"
sUserAgentPath ==
    <<"/", "u", "s", "e", "r", "-", "a", "g", "e", "n", "t">>

\* "/files"
sFiles ==
    <<"/", "f", "i", "l", "e", "s">>

\* "host"
sHost ==
    <<"h", "o", "s", "t">>

\* "user-agent"
sUserAgent ==
    <<"u", "s", "e", "r", "-", "a", "g", "e", "n", "t">>

\* "accept"
sAccept ==
    <<"a", "c", "c", "e", "p", "t">>

\* "content-length"
sContentLength ==
    <<"c", "o", "n", "t", "e", "n", "t", "-", "l", "e", "n", "g", "t", "h">>

\* "content-type"
sContentType ==
    <<"c", "o", "n", "t", "e", "n", "t", "-", "t", "y", "p", "e">>

\* "accept-encoding"
sAcceptEncoding ==
    <<"a", "c", "c", "e", "p", "t", "-", "e", "n", "c", "o", "d", "i", "n", "g">>

\* "gzip"
sGzip ==
    <<"g", "z", "i", "p">>

\* "200 OK"
s200 ==
    <<"2", "0", "0", " ", "O", "K">>

\* "201 Created"
s201 ==
    <<"2", "0", "1", " ", "C", "r", "e", "a", "t", "e", "d">>

\* "400 Bad Request"
s400 ==
    <<"4", "0", "0", " ", "B", "a", "d", " ", "R", "e", "q", "u", "e", "s", "t">>

\* "404 Not Found"
s404 ==
    <<"4", "0", "4", " ", "N", "o", "t", " ", "F", "o", "u", "n", "d">>

\* "405 Method Not Allowed"
s405 ==
    <<"4", "0", "5", " ", "M", "e", "t", "h", "o", "d", " ", "N", "o", "t", " ", "A", "l", "l", "o", "w", "e", "d">>

\* "500 Internal Server Error"
s500 ==
    <<"5", "0", "0", " ", "I", "n", "t", "e", "r", "n", "a", "l", " ", "S", "e", "r", "v", "e", "r", " ", "E", "r", "r", "o", "r">>

\* "\r\n"
sCRLF ==
    <<"\r", "\n">>

\* "HTTP/1.1 "
sHTTP ==
    <<"H", "T", "T", "P", "/", "1", ".", "1", " ">>

\* "Content-Type: text/plain\r\n"
sTextPlain ==
    <<"C", "o", "n", "t", "e", "n", "t", "-", "T", "y", "p", "e", ":", " ", "t", "e", "x", "t", "/", "p", "l", "a", "i", "n", "\r", "\n">>

\* "Content-Type: application/octet-stream\r\n"
sOctetStream ==
    <<"C", "o", "n", "t", "e", "n", "t", "-", "T", "y", "p", "e", ":", " ", "a", "p", "p", "l", "i", "c", "a", "t", "i", "o", "n", "/", "o", "c", "t", "e", "t", "-", "s", "t", "r", "e", "a", "m", "\r", "\n">>

\* "Content-Encoding: gzip\r\n"
sEncodingGzip ==
    <<"C", "o", "n", "t", "e", "n", "t", "-", "E", "n", "c", "o", "d", "i", "n", "g", ":", " ", "g", "z", "i", "p", "\r", "\n">>

\* "Content-Length: "
sLengthColon ==
    <<"C", "o", "n", "t", "e", "n", "t", "-", "L", "e", "n", "g", "t", "h", ":", " ">>

\* "Content-Type: text/plain\r\nContent-Length: 0\r\n\r\n"
sEmptyPlain ==
    <<"C", "o", "n", "t", "e", "n", "t", "-", "T", "y", "p", "e", ":", " ", "t", "e", "x", "t", "/", "p", "l", "a", "i", "n", "\r", "\n", "C", "o", "n", "t", "e", "n", "t", "-", "L", "e", "n", "g", "t", "h", ":", " ", "0", "\r", "\n", "\r", "\n">>

----------------------------------------------------------------------------
(* The Go library functions the server calls, on byte sequences.           *)

\* s[n+1:]
Drop(s, n) == SubSeq(s, n + 1, Len(s))

\* s[:n]
Take(s, n) == SubSeq(s, 1, n)

\* bytes.IndexByte / strings.Index for a one-byte separator, 1-based;
\* 0 when c does not occur in s
IndexOf(s, c) ==
    IF \E i \in 1..Len(s) : s[i] = c
    THEN CHOOSE i \in 1..Len(s) : s[i] = c /\ \A j \in 1..(i - 1) : s[j] # c
    ELSE 0

\* strings.HasPrefix
HasPrefix(s, p) == Len(s) >= Len(p) /\ Take(s, Len(p)) = p

\* unicode.IsSpace on the bytes that occur in the model
IsSpace(c) == c \in {" ", "\t", "\n", "\r"}

RECURSIVE TrimLeft(_)
TrimLeft(s) ==
    IF s # <<>> /\ IsSpace(Head(s)) THEN TrimLeft(Tail(s)) ELSE s

RECURSIVE TrimRight(_)
TrimRight(s) ==
    IF s # <<>> /\ IsSpace(s[Len(s)]) THEN TrimRight(Take(s, Len(s) - 1)) ELSE s

\* strings.TrimSpace
TrimSpace(s) == TrimRight(TrimLeft(s))

\* strings.Split(s, c) for a one-byte separator c: never empty, Split("")
\* is the one-element list holding the empty string
RECURSIVE Split(_, _)
Split(s, c) ==
    LET i == IndexOf(s, c)
    IN  IF i = 0 THEN <<s>>
        ELSE <<Take(s, i - 1)>> \o Split(Drop(s, i), c)

\* strings.SplitN(s, c, 2)
SplitN2(s, c) ==
    LET i == IndexOf(s, c)
    IN  IF i = 0 THEN <<s>> ELSE <<Take(s, i - 1), Drop(s, i)>>

UpperLetters ==
    <<"A", "B", "C", "D", "E", "F", "G", "H", "I", "J", "K", "L", "M",
      "N", "O", "P", "Q", "R", "S", "T", "U", "V", "W", "X", "Y", "Z">>

LowerLetters ==
    <<"a", "b", "c", "d", "e", "f", "g", "h", "i", "j", "k", "l", "m",
      "n", "o", "p", "q", "r", "s", "t", "u", "v", "w", "x", "y", "z">>

\* strings.ToLower
ToLower(s) ==
    [i \in 1..Len(s) |->
        IF \E k \in 1..26 : UpperLetters[k] = s[i]
        THEN LowerLetters[CHOOSE k \in 1..26 : UpperLetters[k] = s[i]]
        ELSE s[i]]

DecimalDigits == <<"0", "1", "2", "3", "4", "5", "6", "7", "8", "9">>

IsDigit(c) == \E k \in 1..10 : DecimalDigits[k] = c

DigitValue(c) == (CHOOSE k \in 1..10 : DecimalDigits[k] = c) - 1

RECURSIVE DecimalValue(_)
DecimalValue(s) ==
    IF s = <<>> THEN 0
    ELSE 10 * DecimalValue(Take(s, Len(s) - 1)) + DigitValue(s[Len(s)])

\* strconv.Atoi with its error dropped, as handleConnection calls it: an
\* optional sign and at least one decimal digit, anything else yields 0.
\* (Beyond 18 digits Atoi clamps to the int range; the model's header values
\* are shorter.)
Atoi(s) ==
    LET signed == s # <<>> /\ Head(s) \in {"+", "-"}
        digits == IF signed THEN Tail(s) ELSE s
    IN  IF digits = <<>> \/ \E i \in 1..Len(digits) : ~IsDigit(digits[i])
        THEN 0
        ELSE IF signed /\ Head(s) = "-"
             THEN 0 - DecimalValue(digits)
             ELSE DecimalValue(digits)

\* fmt's %d of a non-negative int
RECURSIVE FormatInt(_)
FormatInt(n) ==
    IF n < 10 THEN <<DecimalDigits[n + 1]>>
    ELSE FormatInt(n \div 10) \o <<DecimalDigits[(n % 10) + 1]>>

\* dropCR left out: lines are cut at "\n" only
dropNothing(s) == s

\* bufio's dropCR: one trailing "\r" is removed
dropCR(s) ==
    IF s # <<>> /\ s[Len(s)] = "\r" THEN Take(s, Len(s) - 1) ELSE s

\* The concatenation of the tokens bufio.Scanner yields with bufio.ScanLines
\* over data: each line up to "\n" with one "\r" before it dropped, and the
\* unterminated last line with one trailing "\r" dropped.  (A line of 64 KiB
\* or more stops the Scanner; the model's files are shorter.)
RECURSIVE ScanLinesConcat(_)
ScanLinesConcat(data) ==
    LET i == IndexOf(data, "\n")
    IN  IF data = <<>> THEN <<>>
        ELSE IF i > 0
             THEN dropCR(Take(data, i - 1)) \o ScanLinesConcat(Drop(data, i))
             ELSE dropCR(data)

----------------------------------------------------------------------------
(* The connection's input as the bufio.Reader sees it: the bytes the peer  *)
(* sends (data) and what follows them (end): "eof" the peer closes         *)
(* cleanly, "err" the read fails (reset), "stall" the peer sends nothing   *)
(* more and keeps the connection open.  A read result carries err = "nil", *)
(* "eof" or "err"; err = "stall" stands for a read that never returns.     *)

StreamEnds == {"eof", "err", "stall"}

\* bufio.Reader.ReadLine: the bytes up to the first "\n" without the "\n"
\* and without one "\r" before it.  When the stream ends before a "\n" the
\* bytes read so far are returned with a nil error; the error is returned
\* only when no byte was read.
ReadLine(data, end) ==
    LET i == IndexOf(data, "\n")
    IN  IF i > 0
        THEN [err |-> "nil", line |-> dropCR(Take(data, i - 1)), rest |-> Drop(data, i)]
        ELSE IF end = "stall"
             THEN [err |-> "stall", line |-> <<>>, rest |-> data]
             ELSE IF data = <<>>
                  THEN [err |-> end, line |-> <<>>, rest |-> <<>>]
                  ELSE [err |-> "nil", line |-> data, rest |-> <<>>]

\* ReadFull as a single reader.Read: what has arrived is returned, short or
\* not, without an error
ReadOnce(data, end, n) ==
    IF Len(data) >= n
    THEN [err |-> "nil", body |-> Take(data, n), rest |-> Drop(data, n)]
    ELSE [err |-> "nil", body |-> data, rest |-> <<>>]

\* io.ReadFull(reader, make([]byte, n)), n >= 0
ReadFull(data, end, n) ==
    IF Len(data) >= n
    THEN [err |-> "nil", body |-> Take(data, n), rest |-> Drop(data, n)]
    ELSE [err |-> end, body |-> <<>>, rest |-> <<>>]

----------------------------------------------------------------------------
(* Request parser.                                                         *)

\* Headers{}
NoHeaders ==
    [Host |-> <<>>, UserAgent |-> <<>>, Accept |-> <<>>,
     ContentLength |-> <<>>, ContentType |-> <<>>, AcceptEncoding |-> <<>>]

\* getPath that takes a request line without a second token for a request
\* of "/"
getPathOrRoot(requestLine) ==
    LET parts == Split(TrimSpace(requestLine), " ")
    IN  IF Len(parts) < 2 THEN sRoot ELSE parts[2]

getPath(requestLine) ==
    LET parts == Split(TrimSpace(requestLine), " ")
    IN  IF Len(parts) < 2 THEN <<>> ELSE parts[2]

getMethod(requestLine) ==
    LET parts == Split(TrimSpace(requestLine), " ")
    IN  IF Len(parts) = 0 THEN <<>> ELSE parts[1]

\* setHeader that keeps what a field already holds: the first of several
\* lines with one name wins
setHeaderFirstWins(headers, line) ==
    LET parts == SplitN2(line, ":")
        keep(old, new) == IF old = <<>> THEN new ELSE old
    IN  IF Len(parts) # 2 THEN headers
        ELSE LET headerName  == ToLower(TrimSpace(parts[1]))
                 headerValue == TrimSpace(parts[2])
             IN  CASE headerName = sHost           -> [headers EXCEPT !.Host = keep(@, headerValue)]
                   [] headerName = sUserAgent      -> [headers EXCEPT !.UserAgent = keep(@, headerValue)]
                   [] headerName = sAccept         -> [headers EXCEPT !.Accept = keep(@, headerValue)]
                   [] headerName = sContentLength  -> [headers EXCEPT !.ContentLength = keep(@, headerValue)]
                   [] headerName = sContentType    -> [headers EXCEPT !.ContentType = keep(@, headerValue)]
                   [] headerName = sAcceptEncoding -> [headers EXCEPT !.AcceptEncoding = keep(@, headerValue)]
                   [] OTHER -> headers

\* the body of getHeaders' loop for one trimmed, non-empty line
setHeader(headers, line) ==
    LET parts == SplitN2(line, ":")
    IN  IF Len(parts) # 2 THEN headers
        ELSE LET headerName  == ToLower(TrimSpace(parts[1]))
                 headerValue == TrimSpace(parts[2])
             IN  CASE headerName = sHost           -> [headers EXCEPT !.Host = headerValue]
                   [] headerName = sUserAgent      -> [headers EXCEPT !.UserAgent = headerValue]
                   [] headerName = sAccept         -> [headers EXCEPT !.Accept = headerValue]
                   [] headerName = sContentLength  -> [headers EXCEPT !.ContentLength = headerValue]
                   [] headerName = sContentType    -> [headers EXCEPT !.ContentType = headerValue]
                   [] headerName = sAcceptEncoding -> [headers EXCEPT !.AcceptEncoding = headerValue]
                   [] OTHER -> headers

\* getHeaders' loop from the state (headers, data): ReadString('\n') yields
\* the next line with its "\n", or what is left together with the error
RECURSIVE headerLoop(_, _, _)
headerLoop(headers, data, end) ==
    LET i == IndexOf(data, "\n")
    IN  IF i = 0
        THEN IF end = "eof"
             THEN [err |-> "nil", headers |-> headers, rest |-> <<>>]
             ELSE [err |-> end, headers |-> headers, rest |-> <<>>]
        ELSE LET line == TrimSpace(Take(data, i))
             IN  IF line = <<>>
                 THEN [err |-> "nil", headers |-> headers, rest |-> Drop(data, i)]
                 ELSE headerLoop(setHeader(headers, line), Drop(data, i), end)

getHeaders(data, end) == headerLoop(NoHeaders, data, end)

----------------------------------------------------------------------------
(* Handlers and router.  A reply is the pair (statusCode, restResponse)    *)
(* the Go function returns, the name of the function that produced it, and *)
(* the storage root after the call.  The storage root is a function from   *)
(* the names of the existing files to their contents.                      *)

Reply(handler, status, rest, files) ==
    [handler |-> handler, status |-> status, rest |-> rest, files |-> files]

\* regexMatch for the pattern without its "/" and "$": a match of the
\* prefix is enough
regexMatchPrefix(prefix, path) == HasPrefix(path, prefix)

\* regexp `^/name(/(?P<group>.*))?$` against path: "." matches any byte
\* but "\n", "$" only the end of the text
regexMatch(prefix, path) ==
    \/ path = prefix
    \/ /\ HasPrefix(path, prefix \o <<"/">>)
       /\ \A i \in 1..Len(path) : path[i] # "\n"

\* regexGroup with the group `[^/]*` in place of `.*`: the text up to the
\* next "/"
regexGroupSegment(prefix, path) ==
    LET rest == Drop(path, Len(prefix) + 1)
    IN  IF path = prefix THEN <<>>
        ELSE IF IndexOf(rest, "/") = 0 THEN rest
        ELSE Take(rest, IndexOf(rest, "/") - 1)

\* the named group of a match: empty when the group did not take part
regexGroup(prefix, path) ==
    IF path = prefix THEN <<>> ELSE Drop(path, Len(prefix) + 1)

\* handleEcho with the encoding negotiated: any accept-encoding value that
\* names gzip, in any case, selects it
handleEchoNegotiating(path, headers, files) ==
    IF regexMatch(sEcho, path)
    THEN LET toEcho == regexGroup(sEcho, path)
         IN  IF toEcho = <<>>
             THEN Reply("handleEcho", s200, sEmptyPlain, files)
             ELSE IF HasPrefix(ToLower(headers.AcceptEncoding), sGzip)
                  THEN Reply("handleEcho", s200,
                             sTextPlain \o sEncodingGzip \o sLengthColon
                               \o FormatInt(Len(toEcho)) \o sCRLF \o sCRLF \o toEcho,
                             files)
                  ELSE Reply("handleEcho", s200,
                             sTextPlain \o sLengthColon
                               \o FormatInt(Len(toEcho)) \o sCRLF \o sCRLF \o toEcho,
                             files)
    ELSE Reply("handleEcho", s404, sCRLF, files)

handleEcho(path, headers, files) ==
    IF regexMatch(sEcho, path)
    THEN LET toEcho == regexGroup(sEcho, path)
         IN  IF toEcho = <<>>
             THEN Reply("handleEcho", s200, sEmptyPlain, files)
             ELSE IF headers.AcceptEncoding = sGzip
                  THEN Reply("handleEcho", s200,
                             sTextPlain \o sEncodingGzip \o sLengthColon
                               \o FormatInt(Len(toEcho)) \o sCRLF \o sCRLF \o toEcho,
                             files)
                  ELSE Reply("handleEcho", s200,
                             sTextPlain \o sLengthColon
                               \o FormatInt(Len(toEcho)) \o sCRLF \o sCRLF \o toEcho,
                             files)
    ELSE Reply("handleEcho", s404, sCRLF, files)

handleUserAgent(headers, files) ==
    Reply("handleUserAgent", s200,
          sTextPlain \o sLengthColon \o FormatInt(Len(headers.UserAgent))
            \o sCRLF \o sCRLF \o headers.UserAgent,
          files)

\* what os.WriteFile can do: "ok" the file holds the body; "openfail" the
\* file could not be opened or created and nothing changes; "writefail" the
\* file was created or truncated and the write failed
WriteOutcomes == {"ok", "openfail", "writefail"}

\* the storage root after os.WriteFile(name, body) with the given outcome
writeFile(files, name, body, outcome) ==
    CASE outcome = "ok" ->
           [n \in DOMAIN files \cup {name} |-> IF n = name THEN body ELSE files[n]]
      [] outcome = "writefail" ->
           [n \in DOMAIN files \cup {name} |-> IF n = name THEN <<>> ELSE files[n]]
      [] OTHER -> files

\* handleFiles without the test for an empty name in its POST branch: the
\* body is written to the storage root itself
handleFilesAnyName(path, method, body, files, outcome) ==
    IF regexMatch(sFiles, path)
    THEN LET fileName == regexGroup(sFiles, path)
         IN  CASE method = sGET ->
                    IF fileName = <<>>
                    THEN Reply("handleFiles", s200, sEmptyPlain, files)
                    ELSE IF fileName \notin DOMAIN files
                         THEN Reply("handleFiles", s404, sCRLF, files)
                         ELSE LET fileContent == ScanLinesConcat(files[fileName])
                              IN  Reply("handleFiles", s200,
                                        sOctetStream \o sLengthColon
                                          \o FormatInt(Len(fileContent))
                                          \o sCRLF \o sCRLF \o fileContent,
                                        files)
               [] method = sPOST ->
                    IF outcome = "ok"
                    THEN Reply("handleFiles", s201, sCRLF,
                               writeFile(files, fileName, body, outcome))
                    ELSE Reply("handleFiles", s500, sCRLF,
                               writeFile(files, fileName, body, outcome))
               [] OTHER -> Reply("handleFiles", s404, sCRLF, files)
    ELSE Reply("handleFiles", s404, sCRLF, files)

handleFiles(path, method, body, files, outcome) ==
    IF regexMatch(sFiles, path)
    THEN LET fileName == regexGroup(sFiles, path)
         IN  CASE method = sGET ->
                    IF fileName = <<>>
                    THEN Reply("handleFiles", s200, sEmptyPlain, files)
                    ELSE IF fileName \notin DOMAIN files
                         THEN Reply("handleFiles", s404, sCRLF, files)
                         ELSE LET fileContent == ScanLinesConcat(files[fileName])
                              IN  Reply("handleFiles", s200,
                                        sOctetStream \o sLengthColon
                                          \o FormatInt(Len(fileContent))
                                          \o sCRLF \o sCRLF \o fileContent,
                                        files)
               [] method = sPOST ->
                    IF fileName = <<>>
                    THEN Reply("handleFiles", s400, sCRLF, files)
                    ELSE IF outcome = "ok"
                         THEN Reply("handleFiles", s201, sCRLF,
                                    writeFile(files, fileName, body, outcome))
                         ELSE Reply("handleFiles", s500, sCRLF,
                                    writeFile(files, fileName, body, outcome))
               [] OTHER -> Reply("handleFiles", s404, sCRLF, files)
    ELSE Reply("handleFiles", s404, sCRLF, files)

postResponse(path, body, files, outcome) ==
    IF HasPrefix(path, sFiles)
    THEN handleFiles(path, sPOST, body, files, outcome)
    ELSE Reply("postResponse", s404, sCRLF, files)

getResponse(path, lastLine, headers, files) ==
    IF path = sRoot
    THEN Reply("getResponse", s200, sCRLF, files)
    ELSE IF HasPrefix(path, sEcho)
    THEN handleEcho(path, headers, files)
    ELSE IF path = sUserAgentPath
    THEN handleUserAgent(headers, files)
    ELSE IF HasPrefix(path, sFiles)
    THEN handleFiles(path, sGET, lastLine, files, "ok")
    ELSE Reply("getResponse", s404, sCRLF, files)

\* route with getResponse as the default of the switch
routeGetByDefault(method, path, headers, body, files, outcome) ==
    IF method = sPOST
    THEN postResponse(path, body, files, outcome)
    ELSE getResponse(path, <<>>, headers, files)

\* the switch on method in handleConnection
route(method, path, headers, body, files, outcome) ==
    CASE method = sPOST -> postResponse(path, body, files, outcome)
      [] method = sGET  -> getResponse(path, <<>>, headers, files)
      [] OTHER          -> Reply("handleConnection", s405, sCRLF, files)

\* fmt.Sprintf("HTTP/1.1 %s\r\n%s", statusCode, restResponse)
response(statusCode, restResponse) ==
    sHTTP \o statusCode \o sCRLF \o restResponse

----------------------------------------------------------------------------
(* State of the running server.                                            *)

VARIABLES
    maxWorkers,     \* main: runtime.GOMAXPROCS(0), the capacity of semaphore
    semaphore,      \* main: number of elements in the channel semaphore
    wg,             \* main: the counter of the sync.WaitGroup
    pending,        \* main: the accepted conn not yet handed to a goroutine
                    \*       (its index in conn), 0 while main is in Accept
    acceptErrors,   \* number of "Error accepting connection" log lines
    conn,           \* the connections taken from the listener, in order:
                    \* socket state and the locals of their handleConnection
    files,          \* the storage root: file name -> content
    crashed         \* the process was ended by an unrecovered panic

vars == <<maxWorkers, semaphore, wg, pending, acceptErrors, conn, files, crashed>>

\* A connection just returned by listener.Accept(); nothing has arrived on
\* it yet.
\*   pc    where its goroutine stands: "accepted" (held by main),
\*               "readline", "headers", "body", "route", "write" (the
\*               statements of handleConnection), "close" (the deferred
\*               conn.Close), "release" (the deferred wg.Done and semaphore
\*               receive), "fatal" (the runtime ending the process after an
\*               unrecovered panic), "done"
\*   data, end   the unread input
\*   lineBreak   the request line arrived with its line break
\*   requestLine the line reader.ReadLine() returned
\*   failed      which read made handleConnection return early
\*   handler     the function that produced (statusCode, restResponse)
\*   out         the bytes written to the socket
\*   writes      the number of conn.Write calls
\*   closed      the number of conn.Close calls
NewConn ==
    [pc |-> "accepted", data |-> <<>>, end |-> "stall", lineBreak |-> FALSE,
     requestLine |-> <<>>, method |-> <<>>, path |-> <<>>, headers |-> NoHeaders, body |-> <<>>,
     failed |-> "none", panicking |-> FALSE,
     handler |-> "none", statusCode |-> <<>>, restResponse |-> <<>>,
     out |-> <<>>, writes |-> 0, writeFailed |-> FALSE, closed |-> 0]

\* The goroutine has ended: its locals are gone; how it ended and what was
\* done to the socket stays on record.
Ended(c) ==
    [NewConn EXCEPT
        !.pc = "done", !.failed = c.failed, !.writes = c.writes,
        !.closed = c.closed]

Conns == 1..Len(conn)

\* the goroutines started by main that have not yet released their slot
Active == {c \in Conns : conn[c].pc \in {"readline", "headers", "body", "route", "write", "close", "release"}}

\* main up to its loop
InitWith(procs, stores) ==
    /\ maxWorkers \in procs
    /\ semaphore = 0
    /\ wg = 0
    /\ pending = 0
    /\ acceptErrors = 0
    /\ conn = <<>>
    /\ files \in stores
    /\ crashed = FALSE

----------------------------------------------------------------------------
(* main: the acceptor loop.                                                *)

\* listener.Accept() returns a connection
Accept(limit) ==
    /\ ~crashed
    /\ pending = 0
    /\ Len(conn) < limit
    /\ conn' = Append(conn, NewConn)
    /\ pending' = Len(conn) + 1
    /\ UNCHANGED <<maxWorkers, semaphore, wg, acceptErrors, files, crashed>>

\* AcceptError with the `continue` after the send on semaphore: the failed
\* Accept takes a slot that no worker gives back
AcceptErrorTakesSlot(limit) ==
    /\ ~crashed
    /\ pending = 0
    /\ acceptErrors < limit
    /\ semaphore < maxWorkers
    /\ acceptErrors' = acceptErrors + 1
    /\ semaphore' = semaphore + 1
    /\ UNCHANGED <<maxWorkers, wg, pending, conn, files, crashed>>

\* listener.Accept() returns an error: logged, continue
AcceptError(limit) ==
    /\ ~crashed
    /\ pending = 0
    /\ acceptErrors < limit
    /\ acceptErrors' = acceptErrors + 1
    /\ UNCHANGED <<maxWorkers, semaphore, wg, pending, conn, files, crashed>>

\* slotFree with a channel one element too large
slotFreeOffByOne == semaphore <= maxWorkers

\* the send on semaphore can proceed
slotFree == semaphore < maxWorkers

\* Admit with a non-blocking send: a connection that finds the gate full is
\* closed instead of waiting
AdmitOrReject ==
    /\ ~crashed
    /\ pending # 0
    /\ IF slotFree
       THEN /\ semaphore' = semaphore + 1
            /\ wg' = wg + 1
            /\ conn' = [conn EXCEPT ![pending].pc = "readline"]
       ELSE /\ conn' = [conn EXCEPT ![pending].pc = "done", ![pending].closed = 1]
            /\ UNCHANGED <<semaphore, wg>>
    /\ pending' = 0
    /\ UNCHANGED <<maxWorkers, acceptErrors, files, crashed>>

\* semaphore <- struct{}{}; wg.Add(1); go func(c net.Conn){...}(conn)
Admit ==
    /\ ~crashed
    /\ pending # 0
    /\ slotFree
    /\ semaphore' = semaphore + 1
    /\ wg' = wg + 1
    /\ conn' = [conn EXCEPT ![pending].pc = "readline"]
    /\ pending' = 0
    /\ UNCHANGED <<maxWorkers, acceptErrors, files, crashed>>

----------------------------------------------------------------------------
(* handleConnection, one action per blocking call.                         *)

\* what the next read of the socket meets after ReadLine has returned the
\* bytes before the end of the stream and dropped the error: a clean close
\* is met again; after a failed read the socket reports the failure again
\* or end of file
endAfterReadLine(input, r) ==
    IF IndexOf(input.data, "\n") = 0 /\ r.err = "nil" /\ input.end = "err"
    THEN {"err", "eof"}
    ELSE {input.end}

\* reader.ReadLine(); getMethod; getPath.  The peer sends one of inputs:
\* its bytes and what follows them.
ReadRequestLine(c, inputs) ==
    /\ ~crashed
    /\ conn[c].pc = "readline"
    /\ \E input \in inputs :
         LET r == ReadLine(input.data, input.end)
         IN  /\ r.err # "stall"
             /\ IF r.err # "nil"
                THEN conn' = [conn EXCEPT ![c].pc = "close", ![c].failed = "line",
                                          ![c].data = r.rest, ![c].end = input.end]
                ELSE \E e \in endAfterReadLine(input, r) :
                       conn' = [conn EXCEPT ![c].pc = "headers",
                                            ![c].lineBreak = IndexOf(input.data, "\n") > 0,
                                            ![c].requestLine = r.line,
                                            ![c].method = getMethod(r.line),
                                            ![c].path = getPath(r.line),
                                            ![c].data = r.rest,
                                            ![c].end = e]
    /\ UNCHANGED <<maxWorkers, semaphore, wg, pending, acceptErrors, files, crashed>>

\* headers, err := getHeaders(reader)
ReadHeaders(c) ==
    /\ ~crashed
    /\ conn[c].pc = "headers"
    /\ LET r == getHeaders(conn[c].data, conn[c].end)
       IN  /\ r.err # "stall"
           /\ IF r.err # "nil"
              THEN conn' = [conn EXCEPT ![c].pc = "close", ![c].failed = "headers",
                                        ![c].data = r.rest]
              ELSE conn' = [conn EXCEPT ![c].pc = IF conn[c].method = sPOST
                                                  THEN "body" ELSE "route",
                                        ![c].headers = r.headers,
                                        ![c].data = r.rest]
    /\ UNCHANGED <<maxWorkers, semaphore, wg, pending, acceptErrors, files, crashed>>

\* contentLength that reads at least one byte: a missing or unreadable
\* header does not mean an empty body
contentLengthAtLeastOne(headers) ==
    IF Atoi(headers.ContentLength) = 0 THEN 1 ELSE Atoi(headers.ContentLength)

\* contentLength, _ := strconv.Atoi(headers.ContentLength)
contentLength(headers) == Atoi(headers.ContentLength)

\* ReadBody without the return after a failed read: the failure is logged
\* and the request is routed with what was read
ReadBodyNoReturn(c) ==
    /\ ~crashed
    /\ conn[c].pc = "body"
    /\ LET n == contentLength(conn[c].headers)
           r == ReadFull(conn[c].data, conn[c].end, n)
       IN  IF n < 0
           THEN conn' = [conn EXCEPT ![c].pc = "close", ![c].panicking = TRUE]
           ELSE /\ r.err # "stall"
                /\ conn' = [conn EXCEPT ![c].pc = "route",
                                        ![c].failed = IF r.err # "nil" THEN "body" ELSE "none",
                                        ![c].body = r.body,
                                        ![c].data = r.rest]
    /\ UNCHANGED <<maxWorkers, semaphore, wg, pending, acceptErrors, files, crashed>>

\* body = make([]byte, contentLength); io.ReadFull(reader, body).
\* make panics when contentLength is negative: the deferred calls run and
\* the runtime ends the process.
ReadBody(c) ==
    /\ ~crashed
    /\ conn[c].pc = "body"
    /\ LET n == contentLength(conn[c].headers)
           r == ReadFull(conn[c].data, conn[c].end, n)
       IN  IF n < 0
           THEN conn' = [conn EXCEPT ![c].pc = "close", ![c].panicking = TRUE]
           ELSE /\ r.err # "stall"
                /\ IF r.err # "nil"
                   THEN conn' = [conn EXCEPT ![c].pc = "close", ![c].failed = "body",
                                             ![c].data = r.rest]
                   ELSE conn' = [conn EXCEPT ![c].pc = "route",
                                             ![c].body = r.body,
                                             ![c].data = r.rest]
    /\ UNCHANGED <<maxWorkers, semaphore, wg, pending, acceptErrors, files, crashed>>

\* the switch on method: postResponse / getResponse / 405, with the file
\* access of handleFiles
Route(c) ==
    /\ ~crashed
    /\ conn[c].pc = "route"
    /\ \E outcome \in WriteOutcomes :
         LET r == route(conn[c].method, conn[c].path, conn[c].headers,
                        conn[c].body, files, outcome)
         IN  /\ conn' = [conn EXCEPT ![c].pc = "write",
                                     ![c].handler = r.handler,
                                     ![c].statusCode = r.status,
                                     ![c].restResponse = r.rest]
             /\ files' = r.files
    /\ UNCHANGED <<maxWorkers, semaphore, wg, pending, acceptErrors, crashed>>

\* the bytes that reach the peer when conn.Write fails (a failure after
\* part of the bytes went out is not modelled)
partialWrites(bytes) == {<<>>}

\* Write with one retry: after a first failed conn.Write the response is
\* written again
WriteWithRetry(c) ==
    /\ ~crashed
    /\ conn[c].pc = "write"
    /\ LET bytes == response(conn[c].statusCode, conn[c].restResponse)
       IN  \/ conn' = [conn EXCEPT ![c].pc = "close", ![c].out = bytes,
                                   ![c].writes = @ + 1]
           \/ \E sent \in partialWrites(bytes) :
                conn' = [conn EXCEPT ![c].pc = IF conn[c].writes = 0
                                               THEN "write" ELSE "close",
                                     ![c].out = sent,
                                     ![c].writes = @ + 1,
                                     ![c].writeFailed = TRUE]
    /\ UNCHANGED <<maxWorkers, semaphore, wg, pending, acceptErrors, files, crashed>>

\* conn.Write([]byte(response)); a failure is logged
Write(c) ==
    /\ ~crashed
    /\ conn[c].pc = "write"
    /\ LET bytes == response(conn[c].statusCode, conn[c].restResponse)
       IN  \/ conn' = [conn EXCEPT ![c].pc = "close", ![c].out = bytes,
                                   ![c].writes = @ + 1]
           \/ \E sent \in partialWrites(bytes) :
                conn' = [conn EXCEPT ![c].pc = "close", ![c].out = sent,
                                     ![c].writes = @ + 1,
                                     ![c].writeFailed = TRUE]
    /\ UNCHANGED <<maxWorkers, semaphore, wg, pending, acceptErrors, files, crashed>>

\* Close as a call at the end of handleConnection instead of a deferred one:
\* the early returns leave the socket open
CloseNotDeferred(c) ==
    /\ ~crashed
    /\ conn[c].pc = "close"
    /\ conn' = [conn EXCEPT ![c].pc = "release",
                            ![c].closed = IF conn[c].failed = "none" THEN @ + 1 ELSE @]
    /\ UNCHANGED <<maxWorkers, semaphore, wg, pending, acceptErrors, files, crashed>>

\* defer conn.Close()
Close(c) ==
    /\ ~crashed
    /\ conn[c].pc = "close"
    /\ conn' = [conn EXCEPT ![c].pc = "release", ![c].closed = @ + 1]
    /\ UNCHANGED <<maxWorkers, semaphore, wg, pending, acceptErrors, files, crashed>>

\* Release with the slot given back after handleConnection instead of in a
\* deferred function: a panic in handleConnection keeps the slot
ReleaseNotDeferred(c) ==
    /\ ~crashed
    /\ conn[c].pc = "release"
    /\ semaphore > 0
    /\ wg' = IF conn[c].panicking THEN wg ELSE wg - 1
    /\ semaphore' = IF conn[c].panicking THEN semaphore ELSE semaphore - 1
    /\ conn' = [conn EXCEPT ![c] = IF conn[c].panicking
                                   THEN [conn[c] EXCEPT !.pc = "fatal"]
                                   ELSE Ended(conn[c])]
    /\ UNCHANGED <<maxWorkers, pending, acceptErrors, files, crashed>>

\* Release that waits for main: the slot is handed over only while main is
\* not holding a connection
ReleaseAfterAcceptor(c) ==
    /\ ~crashed
    /\ conn[c].pc = "release"
    /\ semaphore > 0
    /\ pending = 0
    /\ wg' = wg - 1
    /\ semaphore' = semaphore - 1
    /\ conn' = [conn EXCEPT ![c] = IF conn[c].panicking
                                   THEN [conn[c] EXCEPT !.pc = "fatal"]
                                   ELSE Ended(conn[c])]
    /\ UNCHANGED <<maxWorkers, pending, acceptErrors, files, crashed>>

\* defer func() { wg.Done(); <-semaphore }() of the goroutine; after it a
\* panicking goroutine is left to the runtime
Release(c) ==
    /\ ~crashed
    /\ conn[c].pc = "release"
    /\ semaphore > 0
    /\ wg' = wg - 1
    /\ semaphore' = semaphore - 1
    /\ conn' = [conn EXCEPT ![c] = IF conn[c].panicking
                                   THEN [conn[c] EXCEPT !.pc = "fatal"]
                                   ELSE Ended(conn[c])]
    /\ UNCHANGED <<maxWorkers, pending, acceptErrors, files, crashed>>

\* the runtime ends the process: the panic was not recovered
Fatal(c) ==
    /\ ~crashed
    /\ conn[c].pc = "fatal"
    /\ crashed' = TRUE
    /\ UNCHANGED <<maxWorkers, semaphore, wg, pending, acceptErrors, conn, files>>

----------------------------------------------------------------------------
(* What the peers send.                                                    *)

sVersion == <<"H", "T", "T", "P", "/", "1", ".", "1">>
sDELETE == <<"D", "E", "L", "E", "T", "E">>
sColon == <<":", " ">>
\* the file name used by the peers
sName == <<"n">>
sFilesName == sFiles \o <<"/">> \o sName

Input(data, end) == [data |-> data, end |-> end]

requestLine(method, path) ==
    method \o <<" ">> \o path \o <<" ">> \o sVersion \o sCRLF

headerLine(name, value) == name \o sColon \o value \o sCRLF

\* a POST of body to /files/n that announces the length given
postFile(length, body) ==
    requestLine(sPOST, sFilesName) \o headerLine(sContentLength, length)
      \o sCRLF \o body

\* The peers of the gate specification: one for every way out of
\* handleConnection, and a slow one.
GateInputs ==
    { Input(requestLine(sGET, sRoot) \o sCRLF, "eof"),      \* answered (or the write fails)
      Input(requestLine(sGET, sRoot), "stall"),             \* slow: never completes its headers
      Input(<<>>, "eof"),                                   \* the request line read fails
      Input(requestLine(sGET, sRoot), "err"),               \* the header read fails
      Input(postFile(<<"2">>, <<"a">>), "eof"),             \* the body read fails
      Input(postFile(<<"-", "1">>, <<>>), "eof") }          \* make panics

----------------------------------------------------------------------------
(* The server with its gate: up to MaxConns connections, a gate of 1 to    *)
(* MaxProcs slots, an empty storage root.                                  *)

Init == InitWith(1..MaxProcs, {<<>>})

Next ==
    \/ Accept(MaxConns)
    \/ AcceptError(1)
    \/ Admit
    \/ \E c \in Conns : ReadRequestLine(c, GateInputs)
    \/ \E c \in Conns : ReadHeaders(c)
    \/ \E c \in Conns : ReadBody(c)
    \/ \E c \in Conns : Route(c)
    \/ \E c \in Conns : Write(c)
    \/ \E c \in Conns : Close(c)
    \/ \E c \in Conns : Release(c)
    \/ \E c \in Conns : Fatal(c)

Spec == Init /\ [][Next]_vars

----------------------------------------------------------------------------
(* One connection, any request: every method, path, header block, body and *)
(* end of stream of the sets below, and every truncation of two requests.  *)
(* The storage root starts empty or holding the file n.                    *)

Methods == {sGET, sPOST, sDELETE}

Paths ==
    { <<>>, sRoot, sEcho, sEcho \o <<"/">>, sEcho \o <<"/", "a", "b">>,
      sEcho \o <<"/", "a", "/", "b">>, sEcho \o <<"e", "s">>,
      sUserAgentPath, sFiles, sFiles \o <<"/">>, sFilesName,
      sFiles \o <<"y", "s">>, sFiles \o <<"2", "/">> \o sName, <<"/", "n", "o">> }

HeaderBlocks ==
    { <<>>,
      headerLine(sContentLength, <<"2">>),
      headerLine(sContentLength, <<"0">>),
      headerLine(sContentLength, <<"x">>),
      headerLine(sContentLength, <<"-", "1">>),
      headerLine(<<"U", "s", "e", "r", "-", "A", "g", "e", "n", "t">>, <<"f", "/", "1">>),
      headerLine(<<"A", "c", "c", "e", "p", "t", "-", "E", "n", "c", "o", "d", "i", "n", "g">>, sGzip),
      headerLine(sAcceptEncoding, <<"G", "Z", "I", "P">>),
      headerLine(sAcceptEncoding, sGzip \o <<",", " ", "x">>) }

Bodies == { <<>>, <<"a">>, <<"a", "b">> }

Prefixes(s) == { Take(s, k) : k \in 0..Len(s) }

\* request lines of fewer than two tokens: a method alone, with and without
\* a space after it, and the empty line
ShortLines == Methods \cup { sGET \o <<" ">>, <<>> }

ConnInputs ==
    { Input(requestLine(m, p) \o h \o sCRLF \o b, e) :
        m \in Methods, p \in Paths, h \in HeaderBlocks, b \in Bodies, e \in StreamEnds }
    \cup
    { Input(d, e) :
        d \in Prefixes(postFile(<<"2">>, <<"a", "b">>))
                \cup Prefixes(requestLine(sGET, sRoot) \o headerLine(sHost, <<"x">>) \o sCRLF),
        e \in {"eof", "err"} }
    \cup
    { Input(line \o sCRLF \o sCRLF, "eof") : line \in ShortLines }

InitConn == InitWith({1}, {<<>>, [f \in {sName} |-> <<"a", "\n", "b">>]})

NextConn ==
    \/ Accept(1)
    \/ AcceptError(1)
    \/ Admit
    \/ \E c \in Conns : ReadRequestLine(c, ConnInputs)
    \/ \E c \in Conns : ReadHeaders(c)
    \/ \E c \in Conns : ReadBody(c)
    \/ \E c \in Conns : Route(c)
    \/ \E c \in Conns : Write(c)
    \/ \E c \in Conns : Close(c)
    \/ \E c \in Conns : Release(c)
    \/ \E c \in Conns : Fatal(c)

SpecConn == InitConn /\ [][NextConn]_vars

----------------------------------------------------------------------------
(* A round trip through the storage root: the first peer posts a body of   *)
(* up to MaxBody bytes to /files/n, the second gets /files/n.              *)

\* the bytes a stored body is made of: a letter and the two bytes of the
\* line terminators
BodyBytes == {"a", "\r", "\n"}

BodiesUpTo(k) == UNION { [1..n -> BodyBytes] : n \in 0..k }

FilesInputs(c) ==
    IF c = 1
    THEN { Input(postFile(FormatInt(Len(b)), b), "eof") : b \in BodiesUpTo(MaxBody) }
    ELSE { Input(requestLine(sGET, sFilesName) \o sCRLF, "eof") }

InitFiles == InitWith({2}, {<<>>})

NextFiles ==
    \/ Accept(2)
    \/ AcceptError(1)
    \/ Admit
    \/ \E c \in Conns : ReadRequestLine(c, FilesInputs(c))
    \/ \E c \in Conns : ReadHeaders(c)
    \/ \E c \in Conns : ReadBody(c)
    \/ \E c \in Conns : Route(c)
    \/ \E c \in Conns : Write(c)
    \/ \E c \in Conns : Close(c)
    \/ \E c \in Conns : Release(c)

SpecFiles == InitFiles /\ [][NextFiles]_vars

----------------------------------------------------------------------------
(* The header section: one connection sends GET / followed by up to        *)
(* MaxHeaderLines complete lines of HeaderLines, in any order and with     *)
(* repetitions, and possibly a last line without its line break, and       *)
(* closes.                                                                 *)

HeaderLines ==
    { <<"H", "o", "s", "t", ":", " ", "a">>,
      <<"H", "O", "S", "T", ":", "b">>,
      <<" ", "h", "o", "s", "t", " ", ":", " ", "c", " ">>,
      <<"H", "o", "s", "t", ":">>,
      <<"H", "o", "s", "t">>,
      <<"A", "c", "c", "e", "p", "t", ":", " ", "a", ":", "b">>,
      <<"X", "-", "H", "o", "s", "t", ":", " ", "z">>,
      <<"U", "s", "e", "r", "-", "A", "g", "e", "n", "t", ":", " ", "u">>,
      <<"C", "o", "n", "t", "e", "n", "t", "-", "L", "e", "n", "g", "t", "h", ":", " ", "1">>,
      <<"c", "o", "n", "t", "e", "n", "t", "-", "T", "Y", "P", "E", ":", "t">>,
      <<"A", "c", "c", "e", "p", "t", "-", "E", "n", "c", "o", "d", "i", "n", "g", ":", " ", "e">>,
      <<>>,
      <<" ">> }

\* the lines, each with its line break, one after the other
RECURSIVE joinLines(_)
joinLines(lines) ==
    IF lines = <<>> THEN <<>>
    ELSE Head(lines) \o sCRLF \o joinLines(Tail(lines))

HeaderInputs ==
    { Input(requestLine(sGET, sRoot) \o joinLines(lines) \o last, "eof") :
        lines \in UNION { [1..n -> HeaderLines] : n \in 0..MaxHeaderLines },
        last \in { <<>>, <<"H", "o", "s", "t", ":", " ", "f">> } }

InitHeaders == InitWith({1}, {<<>>})

NextHeaders ==
    \/ Accept(1)
    \/ Admit
    \/ \E c \in Conns : ReadRequestLine(c, HeaderInputs)
    \/ \E c \in Conns : ReadHeaders(c)
    \/ \E c \in Conns : Route(c)
    \/ \E c \in Conns : Write(c)
    \/ \E c \in Conns : Close(c)
    \/ \E c \in Conns : Release(c)

SpecHeaders == InitHeaders /\ [][NextHeaders]_vars

----------------------------------------------------------------------------
(* Properties of the gate (checked under Spec).                            *)

\* the connections main holds without having handed them to a goroutine
Held == {c \in Conns : conn[c].pc = "accepted"}

\* C1: with a gate of maxWorkers slots, at most maxWorkers connection
\* workers are active (started, slot not yet released) in every reachable
\* state; so a connection accepted while maxWorkers workers are active is
\* admitted only after one of them has released its slot.
GateBound == Cardinality(Active) <= maxWorkers

\* a gate of more than one slot is full and main holds one more connection
GateBoundWitness ==
    /\ Cardinality(Active) = maxWorkers
    /\ Cardinality(Active) > 1
    /\ pending # 0

\* C2: every admitted connection holds exactly one slot until its worker
\* releases it, whichever way handleConnection ends: the number of occupied
\* slots equals the number of admitted workers that have not yet released,
\* and when no such worker is left the gate is empty.
GateAccounting ==
    /\ semaphore = Cardinality(Active)
    /\ wg = semaphore
    /\ Active = {} => semaphore = 0

\* three workers have ended, by a failed header read, a failed body read and
\* a written response, and the gate is empty
GateAccountingWitness ==
    /\ Active = {}
    /\ semaphore = 0
    /\ \E c \in Conns : conn[c].pc = "done" /\ conn[c].failed = "headers"
    /\ \E c \in Conns : conn[c].pc = "done" /\ conn[c].failed = "body"
    /\ \E c \in Conns : conn[c].pc = "done" /\ conn[c].writes = 1

\* a step of main in which listener.Accept() returns a connection
AcceptStep == Len(conn') = Len(conn) + 1

\* main does nothing with the connection it holds but hand it to a goroutine:
\* the connection stays held and open, or it is admitted, open
HeldKept ==
    pending # 0 =>
      /\ conn'[pending].closed = 0
      /\ \/ pending' = pending /\ conn'[pending].pc = "accepted"
         \/ pending' = 0 /\ conn'[pending].pc = "readline"

ErrorsAreLocal == ~crashed

\* C6: whichever way handleConnection ends, the socket is closed exactly
\* once, before the worker releases its slot: a worker that is about to
\* release, has released or has ended has closed its socket once, and no
\* socket is closed before handleConnection returns or more than once.
ClosedOnceBeforeRelease ==
    \A c \in Conns :
      /\ conn[c].pc \in {"release", "fatal", "done"} => conn[c].closed = 1
      /\ conn[c].pc \notin {"release", "fatal", "done"} => conn[c].closed = 0

\* workers that ended by a failed request line read and by a failed write,
\* and one that panicked, all with their sockets closed
ClosedOnceWitness ==
    /\ \E c \in Conns : conn[c].pc = "done" /\ conn[c].failed = "line" /\ conn[c].closed = 1
    /\ \E c \in Conns : conn[c].pc = "release" /\ conn[c].writeFailed /\ conn[c].closed = 1
    /\ \E c \in Conns : conn[c].pc = "fatal" /\ conn[c].closed = 1

----------------------------------------------------------------------------
(* Properties of one connection (checked under SpecConn).                  *)

\* handleConnection has computed (statusCode, restResponse)
Routed(c) == conn[c].handler # "none"

\* C5: a read of the request line, of the headers or of the POST body that
\* returns an error to handleConnection (what counts as such an error for
\* the request line is C7's matter) takes the worker straight to its
\* deferred close: no handler has run, no response was computed, no byte
\* was written, and the storage root changes only in the routing step of a
\* worker none of whose reads failed.
ReadFailureAborts ==
    /\ [](\A c \in Conns :
            conn[c].failed # "none" =>
              /\ conn[c].pc \in {"close", "release", "done"}
              /\ ~Routed(c)
              /\ conn[c].statusCode = <<>>
              /\ conn[c].writes = 0
              /\ conn[c].out = <<>>)
    /\ [][files' # files =>
            \E c \in Conns : /\ conn[c].pc = "route"
                             /\ conn[c].failed = "none"
                             /\ conn'[c].pc = "write"]_vars

\* a POST to /files/n whose body read failed has ended, and the file n that
\* existed before still has its content
ReadFailureAbortsWitness ==
    \E c \in Conns :
      /\ conn[c].pc = "done"
      /\ conn[c].failed = "body"
      /\ conn[c].writes = 0
      /\ sName \in DOMAIN files
      /\ files[sName] = <<"a", "\n", "b">>

\* C7 as stated: a connection whose stream ends before the line break of
\* the request line is aborted and gets no response; a header read fails
\* only for a reason other than a clean end of the stream.
FramingErrors ==
    \A c \in Conns :
      /\ (conn[c].pc \notin {"accepted", "readline"} /\ ~conn[c].lineBreak) =>
           conn[c].writes = 0 /\ conn[c].out = <<>>
      /\ (conn[c].pc \in {"close", "release"} /\ conn[c].failed = "headers") =>
           conn[c].end = "err"

\* a decimal number without sign
IsNumber(s) == s # <<>> /\ \A i \in 1..Len(s) : IsDigit(s[i])

\* C8: when a POST carries a content-length header with the number L, the
\* body the handler gets has exactly L bytes; a body read that met the end
\* of the stream before L bytes ends the connection without a handler and
\* without a response, and the file a 201 reply reports holds those L bytes.
BodyHasContentLength ==
    \A c \in Conns :
      (conn[c].method = sPOST /\ IsNumber(conn[c].headers.ContentLength)) =>
        LET L == DecimalValue(conn[c].headers.ContentLength)
        IN  /\ Routed(c) => Len(conn[c].body) = L
            /\ conn[c].failed = "body" =>
                 ~Routed(c) /\ conn[c].out = <<>> /\ Len(conn[c].body) = 0
            /\ (Routed(c) /\ conn[c].statusCode = s201) =>
                 /\ regexGroup(sFiles, conn[c].path) \in DOMAIN files
                 /\ files[regexGroup(sFiles, conn[c].path)] = conn[c].body
                 /\ Len(files[regexGroup(sFiles, conn[c].path)]) = L

\* a POST announcing two bytes was answered 201 with a body of two bytes
BodyHasContentLengthWitness ==
    \E c \in Conns :
      /\ conn[c].method = sPOST
      /\ conn[c].headers.ContentLength = <<"2">>
      /\ conn[c].statusCode = s201
      /\ conn[c].body = <<"a", "b">>
      /\ conn[c].out # <<>>

\* C10: dispatch is first match wins in the stated order: a method other
\* than GET and POST is answered 405 whatever the path; GET / is answered
\* 200; a GET whose path starts with /echo goes to handleEcho; GET
\* /user-agent goes to handleUserAgent; a GET or POST whose path starts with
\* /files goes to handleFiles; everything else is answered 404.
DispatchOrder ==
    \A c \in Conns :
      Routed(c) =>
        LET m == conn[c].method
            p == conn[c].path
            plain(status) == conn[c].statusCode = status /\ conn[c].restResponse = sCRLF
        IN  IF m \notin {sGET, sPOST}    THEN plain(s405) /\ conn[c].handler = "handleConnection"
            ELSE IF m = sGET /\ p = sRoot THEN plain(s200) /\ conn[c].handler = "getResponse"
            ELSE IF m = sGET /\ HasPrefix(p, sEcho) THEN conn[c].handler = "handleEcho"
            ELSE IF m = sGET /\ p = sUserAgentPath  THEN conn[c].handler = "handleUserAgent"
            ELSE IF HasPrefix(p, sFiles)            THEN conn[c].handler = "handleFiles"
            ELSE plain(s404) /\ conn[c].handler \in {"getResponse", "postResponse"}

\* a DELETE of /files/n, a path with a handler, was answered 405
DispatchOrderWitness ==
    \E c \in Conns :
      /\ conn[c].method = sDELETE
      /\ conn[c].path = sFilesName
      /\ conn[c].statusCode = s405
      /\ conn[c].out = response(s405, sCRLF)

----------------------------------------------------------------------------
(* The round trip through the storage root (checked under SpecFiles).      *)

\* b from its i-th byte on without its line terminators "\n" and "\r\n"
RECURSIVE withoutLineEnds(_, _)
withoutLineEnds(b, i) ==
    IF i > Len(b) THEN <<>>
    ELSE IF b[i] = "\n" \/ (b[i] = "\r" /\ i < Len(b) /\ b[i + 1] = "\n")
         THEN withoutLineEnds(b, i + 1)
         ELSE <<b[i]>> \o withoutLineEnds(b, i + 1)

\* b from its i-th byte on without every "\n", without a "\r" directly
\* before a "\n" and without a "\r" that is the last byte of b
RECURSIVE withoutScannedEnds(_, _)
withoutScannedEnds(b, i) ==
    IF i > Len(b) THEN <<>>
    ELSE IF b[i] = "\n" \/ (b[i] = "\r" /\ (i = Len(b) \/ b[i + 1] = "\n"))
         THEN withoutScannedEnds(b, i + 1)
         ELSE <<b[i]>> \o withoutScannedEnds(b, i + 1)

\* the worker post has answered 201 to a POST of a named file, and the worker
\* get now routes a GET of the same path; no other request came in between
GetAfterPost(post, get) ==
    /\ post # get
    /\ conn[post].method = sPOST
    /\ regexMatch(sFiles, conn[post].path)
    /\ regexGroup(sFiles, conn[post].path) # <<>>
    /\ conn[post].statusCode = s201
    /\ conn[post].pc \in {"close", "release"}
    /\ conn[get].method = sGET
    /\ conn[get].path = conn[post].path
    /\ conn[get].pc = "route"
    /\ conn'[get].pc = "write"

\* the reply to a GET of a file with this content
fileReply(get, content) ==
    /\ conn'[get].statusCode = s200
    /\ conn'[get].restResponse =
         sOctetStream \o sLengthColon \o FormatInt(Len(content))
           \o sCRLF \o sCRLF \o content

\* C9 as stated: a GET of /files/n after a completed POST of b to /files/n
\* returns 200, a Content-Length equal to the length of the returned body,
\* and b without its line terminators; if b holds no line terminator, b.
RoundTripAsStated ==
    [][\A post, get \in Conns :
         GetAfterPost(post, get) => fileReply(get, withoutLineEnds(conn[post].body, 1))]_vars

\* C9, amended: ... and b without every "\n", without the "\r" directly
\* before a "\n" and without a "\r" at the very end of b; so b itself if b
\* holds no "\n" and does not end in "\r".
RoundTrip ==
    [][\A post, get \in Conns :
         GetAfterPost(post, get) => fileReply(get, withoutScannedEnds(conn[post].body, 1))]_vars

\* b = "\r\n\r" was posted; the GET is answered 200 with an empty body
RoundTripWitness ==
    \E post, get \in Conns :
      /\ conn[post].statusCode = s201
      /\ conn[post].body = <<"\r", "\n", "\r">>
      /\ conn[get].method = sGET
      /\ conn[get].statusCode = s200
      /\ conn[get].restResponse = sOctetStream \o sLengthColon \o <<"0">> \o sCRLF \o sCRLF

----------------------------------------------------------------------------
(* Properties of the handlers (checked under SpecConn).  A reply is taken  *)
(* apart as the peer does: the header lines up to the first empty line,    *)
(* and the body after it.                                                  *)

\* the position of the first "\r\n\r\n" in rest, 0 when there is none
headEnd(rest) ==
    LET ends == {i \in 1..(Len(rest) - 3) : SubSeq(rest, i, i + 3) = sCRLF \o sCRLF}
    IN  IF ends = {} THEN 0 ELSE CHOOSE i \in ends : \A j \in ends : i <= j

\* the header lines of a reply, as a set
replyLines(rest) ==
    LET lines == Split(Take(rest, headEnd(rest) - 1), "\n")
    IN  {dropCR(lines[k]) : k \in 1..Len(lines)}

\* the body of a reply
replyBody(rest) == Drop(rest, headEnd(rest) + 3)

\* a header line of a reply
replyLine(name, value) == name \o <<":", " ">> \o value

\* the worker of c has computed the reply to a GET of /echo, /echo/ or
\* /echo/<text>
EchoRouted(c) ==
    /\ Routed(c)
    /\ conn[c].method = sGET
    /\ conn[c].path = sEcho \/ HasPrefix(conn[c].path, sEcho \o <<"/">>)

\* everything after the first "/echo/" of the path
echoText(path) == SubSeq(path, Len(sEcho) + 2, Len(path))

\* C11: a GET of /echo, /echo/ or /echo/<text> is answered 200 OK with
\* Content-Type: text/plain, a Content-Length of the byte length of <text>
\* (0 for /echo and /echo/) and the body <text>, which is everything after
\* the first "/echo/" and may contain "/"; these are the bytes written.
EchoVerbatim ==
    \A c \in Conns :
      EchoRouted(c) =>
        LET rest == conn[c].restResponse
            text == echoText(conn[c].path)
        IN  /\ conn[c].statusCode = s200
            /\ headEnd(rest) > 0
            /\ replyLine(<<"C", "o", "n", "t", "e", "n", "t", "-", "T", "y", "p", "e">>,
                         <<"t", "e", "x", "t", "/", "p", "l", "a", "i", "n">>) \in replyLines(rest)
            /\ replyLine(<<"C", "o", "n", "t", "e", "n", "t", "-", "L", "e", "n", "g", "t", "h">>,
                         FormatInt(Len(text))) \in replyLines(rest)
            /\ replyBody(rest) = text
            /\ (conn[c].writes = 1 /\ ~conn[c].writeFailed) =>
                 conn[c].out = sHTTP \o s200 \o sCRLF \o rest

\* GET /echo/a/b was answered with the body a/b and a Content-Length of 3
EchoVerbatimWitness ==
    \E c \in Conns :
      /\ EchoRouted(c)
      /\ conn[c].path = sEcho \o <<"/", "a", "/", "b">>
      /\ conn[c].writes = 1
      /\ replyBody(conn[c].out) = <<"a", "/", "b">>
      /\ replyLine(<<"C", "o", "n", "t", "e", "n", "t", "-", "L", "e", "n", "g", "t", "h">>,
                   <<"3">>) \in replyLines(conn[c].out)

\* C12: the reply to a GET of /echo/<text> with a non-empty text has the
\* header Content-Encoding: gzip exactly when the captured accept-encoding
\* value is the string "gzip"; either way its body is the text, not
\* compressed, and its Content-Length the byte length of the text.
GzipOnlyWhenExact ==
    \A c \in Conns :
      (EchoRouted(c) /\ echoText(conn[c].path) # <<>>) =>
        LET rest == conn[c].restResponse
            text == echoText(conn[c].path)
        IN  /\ replyLine(<<"C", "o", "n", "t", "e", "n", "t", "-", "E", "n", "c", "o", "d", "i", "n", "g">>,
                         <<"g", "z", "i", "p">>) \in replyLines(rest)
                 <=> conn[c].headers.AcceptEncoding = <<"g", "z", "i", "p">>
            /\ replyBody(rest) = text
            /\ replyLine(<<"C", "o", "n", "t", "e", "n", "t", "-", "L", "e", "n", "g", "t", "h">>,
                         FormatInt(Len(text))) \in replyLines(rest)

\* GET /echo/ab with Accept-Encoding: gzip was answered with the header
\* Content-Encoding: gzip and the body ab
GzipOnlyWhenExactWitness ==
    \E c \in Conns :
      /\ EchoRouted(c)
      /\ conn[c].headers.AcceptEncoding = sGzip
      /\ conn[c].writes = 1
      /\ replyLine(<<"C", "o", "n", "t", "e", "n", "t", "-", "E", "n", "c", "o", "d", "i", "n", "g">>,
                   <<"g", "z", "i", "p">>) \in replyLines(conn[c].out)
      /\ replyBody(conn[c].out) = <<"a", "b">>

\* the request of c is a POST of /files or /files/
PostWithoutName(c) ==
    /\ conn[c].method = sPOST
    /\ conn[c].path \in {sFiles, sFiles \o <<"/">>}

\* C13: a POST of /files or /files/ is answered 400 Bad Request with an
\* empty tail whatever its body, no other reply is ever written to such a
\* request, and routing it leaves the storage root as it was: no file is
\* created or overwritten.
EmptyNameRejected ==
    /\ [](\A c \in Conns :
            PostWithoutName(c) =>
              /\ Routed(c) => conn[c].statusCode = s400 /\ conn[c].restResponse = sCRLF
              /\ conn[c].out \in {<<>>, sHTTP \o s400 \o sCRLF \o sCRLF})
    /\ [][\A c \in Conns :
            (PostWithoutName(c) /\ conn[c].pc = "route" /\ conn'[c].pc = "write") =>
              files' = files]_vars

\* POST /files/ with the body ab was answered 400 and the file n is as
\* it was
EmptyNameRejectedWitness ==
    \E c \in Conns :
      /\ conn[c].method = sPOST
      /\ conn[c].path = sFiles \o <<"/">>
      /\ conn[c].body = <<"a", "b">>
      /\ conn[c].out = sHTTP \o s400 \o sCRLF \o sCRLF
      /\ DOMAIN files = {sName}
      /\ files[sName] = <<"a", "\n", "b">>

----------------------------------------------------------------------------
(* Properties of the acceptor loop and of the gate (checked under Spec).   *)

\* a step of main in which listener.Accept() returns an error
AcceptErrorStep == acceptErrors' # acceptErrors

----------------------------------------------------------------------------
(* The stages of a connection worker (checked under SpecConn).             *)

\* the step takes the worker of c from the stage from to the stage to
Moves(c, from, to) == conn[c].pc = from /\ conn'[c].pc = to

\* what a step may do to the worker of c: stay where it is, or take the next
\* stage, or leave for the deferred close
StageStep(c) ==
    \/ conn'[c].pc = conn[c].pc /\ conn'[c].writes = conn[c].writes
    \/ Moves(c, "accepted", "readline") /\ conn'[c].writes = 0
    \/ Moves(c, "readline", "headers") /\ conn'[c].writes = 0
    \/ Moves(c, "headers", "body") /\ conn[c].method = sPOST /\ conn'[c].writes = 0
    \/ Moves(c, "headers", "route") /\ conn[c].method # sPOST /\ conn'[c].writes = 0
    \/ Moves(c, "body", "route") /\ conn[c].method = sPOST /\ conn'[c].writes = 0
    \/ Moves(c, "route", "write") /\ conn'[c].writes = 0 /\ conn'[c].handler # "none"
    \/ Moves(c, "write", "close") /\ conn[c].writes = 0 /\ conn'[c].writes = 1
    \/ /\ conn[c].pc \in {"readline", "headers", "body"}
       /\ conn'[c].pc = "close"
       /\ conn'[c].failed # "none" \/ conn'[c].panicking
       /\ conn'[c].writes = 0
    \/ Moves(c, "close", "release") /\ conn'[c].writes = conn[c].writes
    \/ /\ conn[c].pc = "release"
       /\ conn'[c].pc \in {"done", "fatal"}
       /\ conn'[c].writes = conn[c].writes

\* C15: a connection worker takes its stages in the order accepted, line
\* read, headers read, body read (only for a POST), routed, response
\* written, closed, and leaves that order only for the close; the request is
\* routed only once the headers, and for a POST the body, are read; the
\* response is written by one conn.Write after routing, and a failed write
\* is followed by the close, never by a second write.
StageOrder ==
    /\ [][\A c \in Conns : StageStep(c)]_vars
    /\ [](\A c \in Conns :
            /\ conn[c].writes <= 1
            /\ Routed(c) => conn[c].pc \in {"write", "close", "release", "fatal"}
            /\ conn[c].out # <<>> => conn[c].writes = 1 /\ Routed(c)
            /\ conn[c].writeFailed =>
                 conn[c].writes = 1 /\ conn[c].pc \in {"close", "release"})

\* a POST with a body went through every stage, its one write failed, and
\* the socket is closed
StageOrderWitness ==
    \E c \in Conns :
      /\ conn[c].method = sPOST
      /\ conn[c].body # <<>>
      /\ Routed(c)
      /\ conn[c].writeFailed
      /\ conn[c].writes = 1
      /\ conn[c].pc = "release"
      /\ conn[c].closed = 1

----------------------------------------------------------------------------
(* Who waits for the gate (checked under Spec).                            *)

\* the worker of c is in a read of its socket, where it waits for nothing
\* but the bytes of its peer
ReadsSocket(c) == conn[c].pc \in {"readline", "headers", "body"}

\* main waits in its send on semaphore
AcceptorWaits == pending # 0 /\ semaphore >= maxWorkers

\* C16: in the running process only main ever waits for the gate.  The
\* release of a worker that has closed its socket is enabled in every
\* state, whatever main and the other workers do; an active worker that
\* is not in a read of its socket can always take its next step; and while
\* main waits for a slot the gate is held by active workers, so no state is
\* held up by the gate alone.
OnlyAcceptorWaits ==
    /\ [](\A c \in Conns :
            (conn[c].pc = "release" /\ ~crashed) => ENABLED Release(c))
    /\ [](\A c \in Active :
            (~crashed /\ ~ReadsSocket(c)) =>
              ENABLED (Route(c) \/ Write(c) \/ Close(c) \/ Release(c)))
    /\ [](AcceptorWaits => Active # {} /\ Cardinality(Active) = maxWorkers)

\* the gate is full, main waits for a slot with a connection in hand, and a
\* worker is about to release
OnlyAcceptorWaitsWitness ==
    /\ AcceptorWaits
    /\ ~crashed
    /\ \E c \in Conns : conn[c].pc = "release"

----------------------------------------------------------------------------
(* The Header Set (checked under SpecHeaders).                             *)

\* the complete lines of data, each trimmed of surrounding white space
completeLines(data) ==
    LET parts == Split(data, "\n")
    IN  [k \in 1..(Len(parts) - 1) |-> TrimSpace(parts[k])]

\* the lines before the first empty one
headerSection(data) ==
    LET lines == completeLines(data)
        empty == {k \in 1..Len(lines) : lines[k] = <<>>}
    IN  IF empty = {} THEN lines
        ELSE SubSeq(lines, 1, (CHOOSE k \in empty : \A j \in empty : k <= j) - 1)

\* line carries the header name: it has a ":" and what is before the first
\* ":" is the name, up to white space and case
carries(line, name) ==
    /\ IndexOf(line, ":") > 0
    /\ ToLower(TrimSpace(Take(line, IndexOf(line, ":") - 1))) = name

\* the trimmed value of the last line of the header section carrying name,
\* empty when there is none
lastValue(data, name) ==
    LET lines == headerSection(data)
        with  == {k \in 1..Len(lines) : carries(lines[k], name)}
        last  == CHOOSE k \in with : \A j \in with : j <= k
    IN  IF with = {} THEN <<>>
        ELSE TrimSpace(Drop(lines[last], IndexOf(lines[last], ":")))

----------------------------------------------------------------------------
(* Request lines and paths (checked under SpecConn).                       *)

\* handleConnection has read the request line of c, which came with its
\* line break, and the line has fewer than two tokens: trimmed, it holds no
\* space
FewTokens(c) ==
    /\ conn[c].pc \in {"headers", "body", "route", "write", "close", "release"}
    /\ conn[c].failed # "line"
    /\ conn[c].lineBreak
    /\ \A i \in 1..Len(TrimSpace(conn[c].requestLine)) :
         TrimSpace(conn[c].requestLine)[i] # " "

\* C18 as stated: a request line with fewer than two tokens yields the
\* empty path, the line read does not fail, and the request is answered
\* 404 Not Found.
ShortLineNotFoundAsStated ==
    \A c \in Conns :
      FewTokens(c) =>
        /\ conn[c].path = <<>>
        /\ Routed(c) => conn[c].statusCode = s404 /\ conn[c].restResponse = sCRLF

\* C18, amended: ... and the request is answered like any request whose path
\* has no route: 404 Not Found when its method is GET or POST, 405 Method
\* Not Allowed otherwise (the empty request line included).
ShortLineNotFound ==
    \A c \in Conns :
      FewTokens(c) =>
        /\ conn[c].path = <<>>
        /\ Routed(c) =>
             /\ conn[c].restResponse = sCRLF
             /\ conn[c].statusCode =
                  IF TrimSpace(conn[c].requestLine) \in {<<"G", "E", "T">>, <<"P", "O", "S", "T">>}
                  THEN s404 ELSE s405

\* the request line GET, complete with its line break, was answered 404
ShortLineNotFoundWitness ==
    \E c \in Conns :
      /\ FewTokens(c)
      /\ conn[c].requestLine = sGET
      /\ conn[c].lineBreak
      /\ conn[c].out = sHTTP \o s404 \o sCRLF \o sCRLF

\* path starts with prefix and is neither prefix nor prefix followed by "/"
\* and more
NearMiss(prefix, path) ==
    /\ Len(path) > Len(prefix)
    /\ SubSeq(path, 1, Len(prefix)) = prefix
    /\ path[Len(prefix) + 1] # "/"

\* the request of c is a GET or POST of such a path under /echo or /files
NearMissRequest(c) ==
    /\ conn[c].method \in {<<"G", "E", "T">>, <<"P", "O", "S", "T">>}
    /\ \/ NearMiss(<<"/", "e", "c", "h", "o">>, conn[c].path)
       \/ NearMiss(<<"/", "f", "i", "l", "e", "s">>, conn[c].path)

\* C19: a GET or POST whose path starts with /echo or /files without being
\* /echo or /files, alone or followed by "/" and more (/echoes, /filesys,
\* /files2/n), is answered 404 Not Found with an empty tail, and routing it
\* leaves the storage root as it was: it is no Echo with a text and no
\* Files request with a name.
NearMissNotFound ==
    /\ [](\A c \in Conns :
            NearMissRequest(c) =>
              /\ Routed(c) => conn[c].statusCode = s404 /\ conn[c].restResponse = sCRLF
              /\ conn[c].out \in {<<>>, sHTTP \o s404 \o sCRLF \o sCRLF})
    /\ [][\A c \in Conns :
            (NearMissRequest(c) /\ conn[c].pc = "route" /\ conn'[c].pc = "write") =>
              files' = files]_vars

\* POST /files2/n with a body was answered 404, and the storage root holds
\* the file n as before and nothing else
NearMissNotFoundWitness ==
    \E c \in Conns :
      /\ conn[c].method = sPOST
      /\ conn[c].path = sFiles \o <<"2", "/">> \o sName
      /\ conn[c].body # <<>>
      /\ conn[c].out = sHTTP \o s404 \o sCRLF \o sCRLF
      /\ DOMAIN files = {sName}
      /\ files[sName] = <<"a", "\n", "b">>

\* s is not a decimal number, signed or not: it is empty, a sign alone, or
\* holds a byte that is neither a digit nor a leading sign
NotANumber(s) ==
    \/ s = <<>>
    \/ s \in {<<"+">>, <<"-">>}
    \/ \E i \in 1..Len(s) : ~IsDigit(s[i]) /\ ~(i = 1 /\ s[1] \in {"+", "-"})

\* the worker of c has read the headers of a POST of /files/<name> with a
\* non-empty name and without a content-length that is a number
PostWithoutLength(c) ==
    /\ conn[c].pc \in {"body", "route", "write", "close", "release"}
    /\ conn[c].failed = "none"
    /\ conn[c].method = <<"P", "O", "S", "T">>
    /\ Len(conn[c].path) > 7
    /\ SubSeq(conn[c].path, 1, 7) = <<"/", "f", "i", "l", "e", "s", "/">>
    /\ NotANumber(conn[c].headers.ContentLength)

\* the name of the file a path /files/<name> stands for
fileNameOf(path) == SubSeq(path, 8, Len(path))

====
